---- MODULE Spec2Model ----
(***************************************************************************)
(* Jokes API: the request handlers over the in-memory joke list.           *)
(*                                                                         *)
(* The repository holds two versions of the server: src/unnamed/part_000   *)
(* (README, swaggerSetup and the server with get-by-id, delete-all and     *)
(* reset) and src/src/index.js (the server with /jokes/tag and without     *)
(* those three routes).  `variant` says which of the two is running.       *)
(*                                                                         *)
(* Strings that the handlers look into (setup, punchline, search terms,    *)
(* id path parameters) are sequences of one-character strings.  A JS       *)
(* object is a record; an absent property is an absent field.  Arrays      *)
(* live in `heap`, and `allJokes` is a reference into it, so that sharing  *)
(* between the working list and the loaded jokesData.json is visible.      *)
(***************************************************************************)
EXTENDS Integers, Sequences, FiniteSets, TLC

VARIABLES variant, heap, allJokes, nextJokeId, req, res, assigned

vars == <<variant, heap, allJokes, nextJokeId, req, res, assigned>>

(* ---------------- bounds ---------------- *)

\* number of successful creates explored
MaxCreates == 2

(* ---------------- program constants ---------------- *)

\* let nextJokeId = 10000000;
JokeIdSeed == 10000000

(* ---------------- strings ---------------- *)

Digits == <<"0", "1", "2", "3", "4", "5", "6", "7", "8", "9">>

HexLetters == <<"a", "b", "c", "d", "e", "f">>

\* the value of character c as a digit, or -1
DigitVal(c) ==
    IF \E i \in 1..10 : Digits[i] = c
    THEN (CHOOSE i \in 1..10 : Digits[i] = c) - 1
    ELSE IF \E i \in 1..6 : HexLetters[i] = c
         THEN (CHOOSE i \in 1..6 : HexLetters[i] = c) + 9
         ELSE -1

IsDigitIn(c, radix) == DigitVal(c) >= 0 /\ DigitVal(c) < radix

\* Number.prototype.toString for a non-negative integer: decimal digits
RECURSIVE NumToString(_)
NumToString(n) ==
    IF n < 10 THEN <<Digits[n + 1]>>
    ELSE NumToString(n \div 10) \o <<Digits[(n % 10) + 1]>>

\* String.prototype.includes(t): t occurs in s as a contiguous run
Includes(s, t) ==
    \E i \in 0..(Len(s) - Len(t)) : SubSeq(s, i + 1, i + Len(t)) = t

\* Array.prototype.toString on an array of strings: join with ","
RECURSIVE JoinComma(_)
JoinComma(ss) ==
    IF Len(ss) = 0 THEN <<>>
    ELSE IF Len(ss) = 1 THEN ss[1]
    ELSE ss[1] \o <<",">> \o JoinComma(Tail(ss))

(* ---------------- parseInt ---------------- *)

RECURSIVE SkipWhite(_)
SkipWhite(s) ==
    IF Len(s) > 0 /\ s[1] = " " THEN SkipWhite(Tail(s)) ELSE s

\* the longest prefix of s made of digits of the radix
RECURSIVE DigitPrefix(_, _)
DigitPrefix(s, radix) ==
    IF Len(s) > 0 /\ IsDigitIn(s[1], radix)
    THEN <<s[1]>> \o DigitPrefix(Tail(s), radix)
    ELSE <<>>

RECURSIVE DigitsValue(_, _)
DigitsValue(ds, radix) ==
    IF Len(ds) = 0 THEN 0
    ELSE DigitsValue(SubSeq(ds, 1, Len(ds) - 1), radix) * radix
         + DigitVal(ds[Len(ds)])

NaN == [isNaN |-> TRUE, value |-> 0]

\* parseInt(s) with no radix argument: leading white space is skipped, a
\* sign is read, a 0x/0X prefix selects radix 16, then the longest run of
\* digits is taken; no digit gives NaN.
parseInt(s) ==
    LET t    == SkipWhite(s)
        neg  == Len(t) > 0 /\ t[1] = "-"
        u    == IF Len(t) > 0 /\ t[1] \in {"-", "+"} THEN Tail(t) ELSE t
        hex  == Len(u) >= 2 /\ u[1] = "0" /\ u[2] \in {"x", "X"}
        v    == IF hex THEN SubSeq(u, 3, Len(u)) ELSE u
        rad  == IF hex THEN 16 ELSE 10
        ds   == DigitPrefix(v, rad)
    IN  IF Len(ds) = 0 THEN NaN
        ELSE [isNaN |-> FALSE,
              value |-> IF neg THEN 0 - DigitsValue(ds, rad)
                        ELSE DigitsValue(ds, rad)]

\* j.id === parseInt(...): NaN is equal to nothing
StrictEqualsId(id, parsed) == ~parsed.isNaN /\ id = parsed.value

(* ---------------- data ---------------- *)

\* ./data/jokesData.json as loaded by require(): the bundled dataset
originalSeed ==
    << [id |-> 1, type |-> "general", setup |-> <<"a", "b">>,
        punchline |-> <<"D">>],
       [id |-> 2, type |-> "pun", setup |-> <<"d">>,
        punchline |-> <<"b", "a">>] >>

\* values of `new Date() + ""`
Times == {"Mon Nov 02 2026 10:00:00"}

Undefined == [defined |-> FALSE, str |-> <<>>]

Str(s) == [defined |-> TRUE, str |-> s]

\* req.body as left by express.json(): absent, null, or a parsed object
Bodies ==
    { [kind |-> "undefined"],
      [kind |-> "null"],
      [kind |-> "object", value |-> <<>>],
      [kind |-> "object",
       value |-> [type |-> "pun", setup |-> <<"c", "a">>,
                  punchline |-> <<"d">>]],
      [kind |-> "object", value |-> [setup |-> <<"a">>]],
      [kind |-> "object",
       value |-> [id |-> 1, type |-> "general", setup |-> <<"d">>,
                  punchline |-> <<"c">>]] }

\* req.params.id: decimal renderings of seed ids, of an id never in use, of
\* the ids the counter hands out, and strings parseInt treats specially
IdParams ==
    { Str(NumToString(n)) : n \in {1, 2, 3} }
    \cup { Str(NumToString(JokeIdSeed + k)) : k \in 0..MaxCreates }
    \cup { Str(<<"1", "x">>), Str(<<"x", "1">>), Str(<<"0", "x", "2">>),
           Str(<<" ", "2">>), Str(<<"-", "1">>), Str(<<"1", ".", "5">>),
           Undefined }

\* req.query.searchTerm: absent, a string, or an array of strings
Queries ==
    { [kind |-> "undefined"],
      [kind |-> "string", value |-> <<>>],
      [kind |-> "string", value |-> <<"a">>],
      [kind |-> "string", value |-> <<"d">>],
      [kind |-> "string", value |-> <<"z">>],
      [kind |-> "array", value |-> << <<"a">>, <<"b">> >>] }

\* JSON.stringify(undefined) inside an array
JsonNull == [null |-> TRUE]

(* ---------------- helpers over the list ---------------- *)

\* the array `allJokes` currently refers to
Jokes == heap[allJokes]

\* a findIndex whose "none" result is a valid index
findIndexClamped(list, parsed) ==
    IF \E i \in 1..Len(list) : StrictEqualsId(list[i].id, parsed)
    THEN (CHOOSE i \in 1..Len(list) :
            /\ StrictEqualsId(list[i].id, parsed)
            /\ \A k \in 1..(i - 1) : ~StrictEqualsId(list[k].id, parsed)) - 1
    ELSE IF Len(list) > 0 THEN 0 ELSE -1

\* Array.prototype.findIndex((j) => j.id === parsed): 0-based, -1 if none
findIndex(list, parsed) ==
    IF \E i \in 1..Len(list) : StrictEqualsId(list[i].id, parsed)
    THEN (CHOOSE i \in 1..Len(list) :
            /\ StrictEqualsId(list[i].id, parsed)
            /\ \A k \in 1..(i - 1) : ~StrictEqualsId(list[k].id, parsed)) - 1
    ELSE -1

\* splice(index) without a count: removes everything from index on
spliceToEnd(list, index) == SubSeq(list, 1, index)

\* Array.prototype.splice(index, 1) on a 0-based index
splice(list, index) ==
    SubSeq(list, 1, index) \o SubSeq(list, index + 2, Len(list))

\* Array.prototype.filter
RECURSIVE filter(_, _)
filter(list, term) ==
    IF Len(list) = 0 THEN <<>>
    ELSE LET j == list[1]
             keep == \/ Includes(j.setup, term)
                     \/ Includes(j.punchline, term)
         IN  (IF keep THEN <<j>> ELSE <<>>) \o filter(Tail(list), term)

\* the predicate (j) => j.setup.includes(t) || j.punchline.includes(t)
\* raises a TypeError when it reads .includes of an absent property; the
\* right operand is only evaluated when the left one is false
PredicateThrows(j, term) ==
    IF "setup" \notin DOMAIN j THEN TRUE
    ELSE IF Includes(j.setup, term) THEN FALSE
    ELSE "punchline" \notin DOMAIN j

FilterThrows(list, term) ==
    \E i \in 1..Len(list) : PredicateThrows(list[i], term)

\* req.query.searchTerm?.toString()
QueryToString(q) ==
    IF q.kind = "undefined" THEN Undefined
    ELSE IF q.kind = "string" THEN Str(q.value)
    ELSE Str(JoinComma(q.value))

\* an id assignment that keeps an id the object already has
WithIdAndTimestampKeepsId(obj, id, t) ==
    [k \in (DOMAIN obj) \cup {"id", "timestamp"} |->
        IF k = "id" THEN (IF "id" \in DOMAIN obj THEN obj[k] ELSE id)
        ELSE IF k = "timestamp" THEN t ELSE obj[k]]

\* newJoke.id = id; newJoke.timestamp = new Date() + ""
WithIdAndTimestamp(obj, id, t) ==
    [k \in (DOMAIN obj) \cup {"id", "timestamp"} |->
        IF k = "id" THEN id ELSE IF k = "timestamp" THEN t ELSE obj[k]]

\* Array.prototype.unshift: the element goes to the front
unshift(list, x) == <<x>> \o list

\* Array.prototype.push
push(list, x) == Append(list, x)

\* a counter that is read but not advanced
PostIncrementStuck(n) == n

\* nextJokeId++
PostIncrement(n) == n + 1

\* [...originalJokesList]: a new array with the same elements
SpreadCopy(h) == [h EXCEPT !["copy"] = h["jokesData"]]

\* allJokes = originalJokesList: the loaded dataset itself, not a copy
SpreadTargetAliased == "jokesData"

\* the array the variable allJokes is bound to after `[...originalJokesList]`
SpreadTarget == "copy"

(* ---------------- initial state ---------------- *)

Init ==
    /\ variant \in {"part_000", "index.js"}
    /\ heap = [jokesData |-> originalSeed,
               copy |-> IF variant = "part_000" THEN originalSeed ELSE <<>>]
    /\ allJokes = IF variant = "part_000" THEN "copy" ELSE "jokesData"
    /\ nextJokeId = JokeIdSeed
    /\ req = [route |-> "none"]
    /\ res = [status |-> 0, body |-> [none |-> TRUE]]
    /\ assigned = <<>>

Frame == UNCHANGED <<variant, heap, allJokes, nextJokeId, assigned>>

(* ---------------- handlers ---------------- *)

\* GET /
handleRoot ==
    /\ req' = [route |-> "GET /"]
    /\ res' = [status |-> 200, body |-> [text |-> "greeting"]]
    /\ Frame

\* GET /time
handleGetTime ==
    /\ \E t \in Times :
         res' = [status |-> 200, body |-> [text |-> t]]
    /\ req' = [route |-> "GET /time"]
    /\ Frame

\* GET /jokes; the request record also keeps which request was served
\* immediately before this one
handleGetAllJokes ==
    /\ req' = [route |-> "GET /jokes", after |-> req.route]
    /\ res' = [status |-> 200, body |-> [jokes |-> Jokes]]
    /\ Frame

\* a get-first that takes the element out with allJokes.shift()
handleGetFirstJokeShift ==
    /\ variant = "part_000"
    /\ req' = [route |-> "GET /jokes/first"]
    /\ res' = IF Len(Jokes) > 0
              THEN [status |-> 200, body |-> [joke |-> Jokes[1]]]
              ELSE [status |-> 404,
                    body |-> [outcome |-> "failure",
                              message |-> "no jokes in database"]]
    /\ heap' = [heap EXCEPT ![allJokes] =
                  IF Len(Jokes) > 0 THEN Tail(Jokes) ELSE Jokes]
    /\ UNCHANGED <<variant, allJokes, nextJokeId, assigned>>

\* GET /jokes/first in part_000
handleGetFirstJoke ==
    /\ variant = "part_000"
    /\ req' = [route |-> "GET /jokes/first"]
    /\ res' = IF Len(Jokes) > 0
              THEN [status |-> 200, body |-> [joke |-> Jokes[1]]]
              ELSE [status |-> 404,
                    body |-> [outcome |-> "failure",
                              message |-> "no jokes in database"]]
    /\ Frame

\* GET /jokes/first in index.js: res.json([allJokes[0]])
handleRequestForFirstJoke ==
    /\ variant = "index.js"
    /\ req' = [route |-> "GET /jokes/first"]
    /\ res' = [status |-> 200,
               body |-> [jokes |-> IF Len(Jokes) > 0 THEN <<Jokes[1]>>
                                   ELSE <<JsonNull>>]]
    /\ Frame

\* DELETE /jokes/:id
handleDeleteJoke ==
    \E soughtId \in IdParams :
      LET indexOfJokeToDelete == findIndex(Jokes, parseInt(soughtId.str))
          notFoundBody ==
              IF variant = "part_000"
              THEN [outcome |-> "failure", message |-> "joke not found"]
              ELSE [text |-> "joke not found"]
      IN  /\ req' = [route |-> "DELETE /jokes/:id", id |-> soughtId]
          /\ IF ~soughtId.defined
             THEN /\ res' = [status |-> 404, body |-> [text |-> "missing id"]]
                  /\ UNCHANGED heap
             ELSE IF indexOfJokeToDelete < 0
             THEN /\ res' = [status |-> 404, body |-> notFoundBody]
                  /\ UNCHANGED heap
             ELSE /\ heap' = [heap EXCEPT
                                ![allJokes] = splice(Jokes, indexOfJokeToDelete)]
                  /\ res' = [status |-> 200,
                             body |-> [joke |-> Jokes[indexOfJokeToDelete + 1]]]
          /\ UNCHANGED <<variant, allJokes, nextJokeId, assigned>>

\* a length assignment that keeps the first element
setLengthKeepsFirst(list, n) == SubSeq(list, 1, IF Len(list) > 0 THEN 1 ELSE 0)

\* list.length = n for n not above the current length: truncation in place
setLength(list, n) == SubSeq(list, 1, n)

\* a delete-all that also puts the counter back to its start
handleDeleteAllJokesAndCounter ==
    /\ variant = "part_000"
    /\ req' = [route |-> "DELETE /jokes"]
    /\ heap' = [heap EXCEPT ![allJokes] = setLength(Jokes, 0)]
    /\ nextJokeId' = JokeIdSeed
    /\ res' = [status |-> 200,
               body |-> [outcome |-> "success",
                         message |-> "all jokes deleted"]]
    /\ UNCHANGED <<variant, allJokes, assigned>>

\* DELETE /jokes: allJokes.length = 0
handleDeleteAllJokes ==
    /\ variant = "part_000"
    /\ req' = [route |-> "DELETE /jokes"]
    /\ heap' = [heap EXCEPT ![allJokes] = setLength(Jokes, 0)]
    /\ res' = [status |-> 200,
               body |-> [outcome |-> "success",
                         message |-> "all jokes deleted"]]
    /\ UNCHANGED <<variant, allJokes, nextJokeId, assigned>>

\* searchTerm === undefined only
FalsyUndefinedOnly(s) == ~s.defined

\* !searchTerm: undefined and the empty string are falsy
Falsy(s) == ~s.defined \/ s.str = <<>>

\* GET /jokes/search in part_000, GET /jokes/tag in index.js
handleJokesSearch ==
    \E q \in Queries :
      LET searchTerm == QueryToString(q)
      IN  /\ req' = [route |-> IF variant = "part_000"
                               THEN "GET /jokes/search" ELSE "GET /jokes/tag",
                     query |-> q]
          /\ res' = IF Falsy(searchTerm)
                    THEN [status |-> 400,
                          body |-> [text |->
                                     "missing searchTerm query parameter"]]
                    ELSE IF FilterThrows(Jokes, searchTerm.str)
                    THEN [status |-> 500, body |-> [error |-> "TypeError"]]
                    ELSE [status |-> 200,
                          body |-> [jokes |-> filter(Jokes, searchTerm.str)]]
          /\ Frame

\* GET /jokes/random: lodash.sample gives any element, undefined if empty
handleRequestForRandomJoke ==
    /\ req' = [route |-> "GET /jokes/random"]
    /\ IF Len(Jokes) = 0
       THEN res' = [status |-> 200, body |-> [jokes |-> <<JsonNull>>]]
       ELSE \E i \in 1..Len(Jokes) :
              res' = [status |-> 200, body |-> [jokes |-> <<Jokes[i]>>]]
    /\ Frame

\* a find whose predicate accepts every joke
findAny(list, parsed) == IF Len(list) > 0 THEN 1 ELSE 0

\* Array.prototype.find((j) => j.id === soughtId): the index found, 0 if none
find(list, parsed) == findIndex(list, parsed) + 1

\* GET /jokes/:id (part_000 only)
handleGetJokeById ==
    /\ variant = "part_000"
    /\ \E id \in IdParams :
         LET soughtId == parseInt(IF id.defined THEN id.str ELSE <<>>)
             foundJoke == find(Jokes, soughtId)
         IN  /\ req' = [route |-> "GET /jokes/:id", id |-> id]
             /\ res' = IF soughtId.isNaN
                       THEN [status |-> 400,
                             body |-> [outcome |-> "failure",
                                       message |-> "missing id to search for."]]
                       ELSE IF foundJoke = 0
                       THEN [status |-> 404,
                             body |-> [outcome |-> "failure",
                                       message |->
                                         "can't find joke with that id.",
                                       soughtId |-> soughtId.value]]
                       ELSE [status |-> 200,
                             body |-> [joke |-> Jokes[foundJoke]]]
    /\ Frame

\* newJoke === undefined only
BodyMissingUndefinedOnly(body) == body.kind = "undefined"

\* newJoke === undefined || newJoke === null
BodyMissing(body) == body.kind \in {"undefined", "null"}

\* POST /jokes; `assigned` keeps the ids of the jokes stored so far, in
\* creation order
handleRequestForPOSTJoke ==
    \E body \in Bodies, t \in Times :
      /\ req' = [route |-> "POST /jokes", body |-> body]
      /\ IF BodyMissing(body)
         THEN /\ res' = [status |-> 400,
                         body |-> [text |-> "where is your joke!"]]
              /\ UNCHANGED <<heap, nextJokeId, assigned>>
         ELSE IF body.kind # "object"
         THEN \* newJoke.id = id on a non-object raises a TypeError, after
              \* the counter has been incremented
              /\ nextJokeId < JokeIdSeed + MaxCreates
              /\ nextJokeId' = PostIncrement(nextJokeId)
              /\ res' = [status |-> 500, body |-> [error |-> "TypeError"]]
              /\ UNCHANGED <<heap, assigned>>
         ELSE LET id == nextJokeId
                  newJoke == WithIdAndTimestamp(body.value, id, t)
              IN  /\ nextJokeId < JokeIdSeed + MaxCreates
                  /\ nextJokeId' = PostIncrement(nextJokeId)
                  /\ heap' = [heap EXCEPT ![allJokes] = push(Jokes, newJoke)]
                  /\ res' = [status |-> 201, body |-> [joke |-> newJoke]]
                  /\ assigned' = Append(assigned, newJoke.id)
      /\ UNCHANGED <<variant, allJokes>>

\* a reset that also puts the counter back to its start
handleResetJokesAndCounter ==
    /\ variant = "part_000"
    /\ req' = [route |-> "POST /jokes/reset"]
    /\ heap' = SpreadCopy(heap)
    /\ allJokes' = SpreadTarget
    /\ nextJokeId' = JokeIdSeed
    /\ res' = [status |-> 200,
               body |-> [outcome |-> "success",
                         message |-> "jokes list has been reset"]]
    /\ UNCHANGED <<variant, assigned>>

\* POST /jokes/reset (part_000 only): allJokes = [...originalJokesList]
handleResetJokes ==
    /\ variant = "part_000"
    /\ req' = [route |-> "POST /jokes/reset"]
    /\ heap' = SpreadCopy(heap)
    /\ allJokes' = SpreadTarget
    /\ res' = [status |-> 200,
               body |-> [outcome |-> "success",
                         message |-> "jokes list has been reset"]]
    /\ UNCHANGED <<variant, nextJokeId, assigned>>

Next ==
    \/ handleRoot
    \/ handleGetTime
    \/ handleGetAllJokes
    \/ handleGetFirstJoke
    \/ handleRequestForFirstJoke
    \/ handleDeleteJoke
    \/ handleDeleteAllJokes
    \/ handleJokesSearch
    \/ handleRequestForRandomJoke
    \/ handleGetJokeById
    \/ handleRequestForPOSTJoke
    \/ handleResetJokes

Spec == Init /\ [][Next]_vars

(* ---------------- properties ---------------- *)

\* the list after the step
JokesNext == heap'[allJokes']

SearchRoutes == {"GET /jokes/search", "GET /jokes/tag"}

\* some joke of the list has the id that the path parameter parses to
IdMatches(list, param) ==
    \E i \in 1..Len(list) : StrictEqualsId(list[i].id, parseInt(param.str))

\* C1: no two jokes in the store have the same id.
C1_UniqueIds ==
    \A i, k \in 1..Len(Jokes) : i # k => Jokes[i].id # Jokes[k].id

\* C1 witness: a second create has just been stored and the store holds
\* both seed jokes and both created ones.
C1_Witness ==
    /\ req.route = "POST /jokes"
    /\ res.status = 201
    /\ Len(assigned) >= 2
    /\ Len(Jokes) >= 4

\* C2: the ids handed out by successive successful creates start at
\* 10,000,000 and are strictly increasing, hence never handed out twice.
C2_IdsStrictlyIncreasing ==
    /\ Len(assigned) > 0 => assigned[1] = JokeIdSeed
    /\ \A i, k \in 1..Len(assigned) : i < k => assigned[i] < assigned[k]

\* C2 witness: two creates succeeded and the first created joke, as well as
\* the seed, has left the store in between (a delete or reset intervened).
C2_Witness ==
    /\ req.route = "POST /jokes"
    /\ res.status = 201
    /\ Len(assigned) >= 2
    /\ Len(Jokes) = 1

\* C3: a list served immediately after a reset returns exactly the seed
\* dataset in its original order.
C3_ListAfterResetIsSeed ==
    (req.route = "GET /jokes" /\ req.after = "POST /jokes/reset")
        => res = [status |-> 200, body |-> [jokes |-> originalSeed]]

\* C3 witness: a list right after a reset that itself followed creates.
C3_Witness ==
    /\ req.route = "GET /jokes"
    /\ req.after = "POST /jokes/reset"
    /\ Len(assigned) >= 1
    /\ res.body.jokes = originalSeed

\* C4: every request is answered with a 2xx or a 4xx status.
C4_Only2xxOr4xx ==
    req.route # "none" => res.status \in (200..299) \cup (400..499)

C6_CreateWithoutBody ==
    [][(req'.route = "POST /jokes" /\ req'.body.kind \in {"undefined", "null"})
         => (res'.status = 400 /\ Len(JokesNext) = Len(Jokes))]_vars

\* C6 witness: a null body was refused.
C6_Witness ==
    /\ req.route = "POST /jokes"
    /\ req.body.kind = "null"
    /\ res.status = 400

\* C7: get-first answers 200 with the first joke itself when the store is
\* non-empty and 404 when it is empty.
C7_GetFirst ==
    req.route = "GET /jokes/first" =>
        IF Len(Jokes) > 0
        THEN res = [status |-> 200, body |-> [joke |-> Jokes[1]]]
        ELSE res.status = 404

\* C8: get-by-id answers 400 when the id does not parse as an integer,
\* else 404 carrying the sought id when no joke has it, else 200 with the
\* joke of that id.
C8_GetById ==
    req.route = "GET /jokes/:id" =>
        LET parsed == parseInt(req.id.str)
        IN  IF parsed.isNaN THEN res.status = 400
            ELSE IF \A i \in 1..Len(Jokes) : Jokes[i].id # parsed.value
            THEN /\ res.status = 404
                 /\ res.body.soughtId = parsed.value
            ELSE /\ res.status = 200
                 /\ res.body.joke.id = parsed.value
                 /\ \E i \in 1..Len(Jokes) : Jokes[i] = res.body.joke

\* C8 witness: a created joke was fetched by its id.
C8_Witness ==
    /\ req.route = "GET /jokes/:id"
    /\ res.status = 200
    /\ res.body.joke.id >= JokeIdSeed

\* a joke contains the term in its setup or in its punchline
Contains(j, term) ==
    \/ "setup" \in DOMAIN j /\ Includes(j.setup, term)
    \/ "punchline" \in DOMAIN j /\ Includes(j.punchline, term)

\* C9: for a non-empty term, search answers 200 with exactly the jokes
\* containing the term, in store order.
C9_SearchReturnsMatches ==
    (req.route \in SearchRoutes /\ ~Falsy(QueryToString(req.query))) =>
        res = [status |-> 200,
               body |-> [jokes |->
                           SelectSeq(Jokes,
                              LAMBDA j : Contains(j,
                                           QueryToString(req.query).str))]]

\* C10: a search without a searchTerm, or with an empty one, is answered
\* 400 whatever the store holds.
C10_SearchWithoutTerm ==
    (/\ req.route \in SearchRoutes
     /\ \/ req.query.kind = "undefined"
        \/ req.query.kind = "string" /\ req.query.value = <<>>)
        => res.status = 400

\* C10 witness: an empty term was refused while the store held a joke
\* without a setup.
C10_Witness ==
    /\ req.route \in SearchRoutes
    /\ req.query.kind = "string"
    /\ req.query.value = <<>>
    /\ res.status = 400
    /\ \E i \in 1..Len(Jokes) : "setup" \notin DOMAIN Jokes[i]

\* C11: the random route answers 200 with an array of exactly one element,
\* and that element is a joke currently held in the store.
C11_RandomReturnsStoredJoke ==
    req.route = "GET /jokes/random" =>
        /\ res.status = 200
        /\ Len(res.body.jokes) = 1
        /\ \E i \in 1..Len(Jokes) : Jokes[i] = res.body.jokes[1]

\* C12: delete-all is answered 200 from any state and a list served
\* immediately after it returns an empty array.
C12_DeleteAllThenListIsEmpty ==
    /\ req.route = "DELETE /jokes" => (res.status = 200 /\ Jokes = <<>>)
    /\ (req.route = "GET /jokes" /\ req.after = "DELETE /jokes")
          => res = [status |-> 200, body |-> [jokes |-> <<>>]]

\* C12 witness: a list right after a delete-all that followed a create.
C12_Witness ==
    /\ req.route = "GET /jokes"
    /\ req.after = "DELETE /jokes"
    /\ Len(assigned) >= 1
    /\ res.status = 200

\* C13: delete-all and reset leave the next-id counter as it was, so the
\* next create gets the id it would have got without them.
C13_CounterSurvivesDeleteAllAndReset ==
    [][req'.route \in {"DELETE /jokes", "POST /jokes/reset"}
         => nextJokeId' = nextJokeId]_vars

\* C13 witness: a create stored right after the counter had advanced and
\* the store had been emptied or reset carries the advanced id.
C13_Witness ==
    /\ req.route = "POST /jokes"
    /\ res.status = 201
    /\ res.body.joke.id = JokeIdSeed + 1
    /\ Len(Jokes) \in {1, 3}
    /\ \A i \in 1..Len(Jokes) : Jokes[i].id # JokeIdSeed

C15_DeleteRemovesExactlyOne ==
    [][(req'.route = "DELETE /jokes/:id" /\ IdMatches(Jokes, req'.id))
         => /\ res'.status = 200
            /\ \E i \in 1..Len(Jokes) :
                 /\ StrictEqualsId(Jokes[i].id, parseInt(req'.id.str))
                 /\ res'.body.joke = Jokes[i]
                 /\ JokesNext = SubSeq(Jokes, 1, i - 1)
                                  \o SubSeq(Jokes, i + 1, Len(Jokes))]_vars

\* C15 witness: the first seed joke was deleted from a store that keeps the
\* second seed joke and a created one behind it.
C15_Witness ==
    /\ req.route = "DELETE /jokes/:id"
    /\ res.status = 200
    /\ res.body.joke.id = 1
    /\ Len(Jokes) >= 2
    /\ Jokes[1].id = 2
    /\ Jokes[2].id >= JokeIdSeed

\* the path parameter is written as an integer: an optional minus sign
\* followed by decimal digits only
IsIntegerFormat(param) ==
    /\ param.defined
    /\ LET body == IF Len(param.str) > 0 /\ param.str[1] = "-"
                   THEN Tail(param.str) ELSE param.str
       IN  /\ Len(body) > 0
           /\ \A i \in 1..Len(body) : IsDigitIn(body[i], 10)

\* C16: as documented for the route, DELETE /jokes/{id} answers 400 when
\* the id is missing or not in integer format, and 404 only when a
\* well-formed id matches no joke.
C16_DeleteBadIdIs400 ==
    req.route = "DELETE /jokes/:id" =>
        /\ ~IsIntegerFormat(req.id) => res.status = 400
        /\ res.status = 404 =>
             (IsIntegerFormat(req.id) /\ ~IdMatches(Jokes, req.id))

UpperCase == <<"A", "B", "C", "D", "E", "F", "G", "H", "I", "J", "K", "L",
               "M", "N", "O", "P", "Q", "R", "S", "T", "U", "V", "W", "X",
               "Y", "Z">>

LowerCase == <<"a", "b", "c", "d", "e", "f", "g", "h", "i", "j", "k", "l",
               "m", "n", "o", "p", "q", "r", "s", "t", "u", "v", "w", "x",
               "y", "z">>

\* the text with every upper-case letter replaced by its lower-case one
ToLower(text) ==
    [i \in 1..Len(text) |->
        IF \E k \in 1..26 : UpperCase[k] = text[i]
        THEN LowerCase[CHOOSE k \in 1..26 : UpperCase[k] = text[i]]
        ELSE text[i]]

\* a joke contains the term in setup or punchline, letter case ignored
ContainsIgnoreCase(j, term) ==
    \/ "setup" \in DOMAIN j /\ Includes(ToLower(j.setup), ToLower(term))
    \/ "punchline" \in DOMAIN j
         /\ Includes(ToLower(j.punchline), ToLower(term))

\* C17: as documented for the route, the term is matched without regard
\* to letter case: a successful search includes every joke whose setup or
\* punchline contains the term in any letter case.
C17_SearchIgnoresCase ==
    (/\ req.route \in SearchRoutes
     /\ ~Falsy(QueryToString(req.query))
     /\ res.status = 200) =>
        \A i \in 1..Len(Jokes) :
            ContainsIgnoreCase(Jokes[i], QueryToString(req.query).str)
                => \E k \in 1..Len(res.body.jokes) :
                       res.body.jokes[k] = Jokes[i]

\* C18: the id of a stored joke is the store's: an id sent in the body of a
\* create is overwritten by the value the counter had at the create, in
\* the stored joke as in the returned one.
C18_ClientIdOverwritten ==
    [][(/\ req'.route = "POST /jokes"
        /\ res'.status = 201
        /\ "id" \in DOMAIN req'.body.value)
         => /\ res'.body.joke.id = nextJokeId
            /\ JokesNext[Len(JokesNext)].id = nextJokeId
            /\ \A i \in 1..Len(JokesNext) :
                 JokesNext[i].id >= JokeIdSeed
                    => \E k \in 1..Len(assigned') :
                           assigned'[k] = JokesNext[i].id]_vars

\* C18 witness: a body carrying id 1 was stored under the counter's id.
C18_Witness ==
    /\ req.route = "POST /jokes"
    /\ res.status = 201
    /\ "id" \in DOMAIN req.body.value
    /\ req.body.value.id = 1
    /\ res.body.joke.id >= JokeIdSeed
    /\ Jokes[Len(Jokes)].id = res.body.joke.id

InStore(list, id) == \E i \in 1..Len(list) : list[i].id = id

\* C19: a created joke that has left the store never returns to it, and
\* every get-by-id for its id is answered 404.
C19_DepartedIdStaysGone ==
    [][\A k \in 1..Len(assigned) :
          ~InStore(Jokes, assigned[k])
             => /\ ~InStore(JokesNext, assigned[k])
                /\ (/\ req'.route = "GET /jokes/:id"
                    /\ StrictEqualsId(assigned[k], parseInt(req'.id.str)))
                      => res'.status = 404]_vars

\* C19 witness: get-by-id for the first created id is answered 404 after
\* that joke left the store and a later create and a reset took place.
C19_Witness ==
    /\ req.route = "GET /jokes/:id"
    /\ Len(assigned) >= 2
    /\ StrictEqualsId(assigned[1], parseInt(req.id.str))
    /\ res.status = 404
    /\ InStore(Jokes, 1)
    /\ ~InStore(Jokes, assigned[2])

ReadOnlyRoutes ==
    {"GET /", "GET /time", "GET /jokes", "GET /jokes/first",
     "GET /jokes/:id", "GET /jokes/random"} \cup SearchRoutes

\* C20: the read-only requests and every request answered 4xx leave the
\* joke sequence and the next-id counter as they were.
C20_ReadsAndFailuresChangeNothing ==
    [][(req'.route \in ReadOnlyRoutes \/ res'.status \in 400..499)
         => (JokesNext = Jokes /\ heap' = heap /\ nextJokeId' = nextJokeId)]_vars

\* C20 witness: a create without a body was refused after an earlier
\* create had advanced the counter, which still has that value.
C20_Witness ==
    /\ req.route = "POST /jokes"
    /\ res.status = 400
    /\ Len(assigned) = 1
    /\ nextJokeId = JokeIdSeed + 1

====
